---- MODULE Spec2Model ----
(***************************************************************************)
(* A model of randomsanity_server: the statistical sanity tests            *)
(* (randomsanitystat.go), the request handler (randomsanity.go) and the    *)
(* uniqueness store ("have we ever seen this array of bytes before?").     *)
(*                                                                         *)
(* Byte strings are sequences of numbers 0..255, indexed from 1; the Go    *)
(* index i is the TLA+ index i+1.                                          *)
(***************************************************************************)
EXTENDS Integers, Sequences, FiniteSets, TLC

(***************************************************************************)
(* Byte arithmetic                                                         *)
(***************************************************************************)

\* bit j (0 the lowest) of byte v
Bit(v, j) == (v \div (2 ^ j)) % 2

\* the byte whose set bits are those of S
RECURSIVE FromBits(_)
FromBits(S) ==
  IF S = {} THEN 0
  ELSE LET j == CHOOSE x \in S : TRUE IN (2 ^ j) + FromBits(S \ {j})

\* A uint64 is kept as its 8 base-256 digits, least significant first.
ZeroPad(s) == s \o [k \in 1..(8 - Len(s)) |-> 0]

Reverse(s) == [k \in 1..Len(s) |-> s[Len(s) + 1 - k]]

\* binary.LittleEndian.UintNN(b), widened to uint64
decodeLE(s) == ZeroPad(s)

\* the big-endian bytes read in little-endian order
decodeBEUnreversed(s) == ZeroPad(s)

\* binary.BigEndian.UintNN(b), widened to uint64
decodeBE(s) == ZeroPad(Reverse(s))

\* x + carry on uint64 digits from digit k on; the carry out of digit 8 is lost
\* (unsigned overflow wraps modulo 2^64).
RECURSIVE AddCarry(_, _, _)
AddCarry(x, k, carry) ==
  IF k > 8 THEN x
  ELSE LET s == x[k] + carry
       IN AddCarry([x EXCEPT ![k] = s % 256], k + 1, s \div 256)

\* first + uint64(i)
AddU64(x, i) == AddCarry(x, 1, i)

(***************************************************************************)
(* randomsanitystat.go                                                     *)
(***************************************************************************)

\* fp(b): the decodeF handed to incrementing, named by its byte order
decode(order, s) == IF order = "BE" THEN decodeBE(s) ELSE decodeLE(s)

\* the loop of incrementing: for i := 1; i < nNums && allmatch; i++
RECURSIVE incrementingLoop(_, _, _, _, _, _)
incrementingLoop(b, bytesPerNum, order, first, nNums, i) ==
  IF i >= nNums THEN TRUE
  ELSE LET n == decode(order, SubSeq(b, bytesPerNum * i + 1, bytesPerNum * (i + 1)))
       IN IF AddU64(first, i) # n THEN FALSE
          ELSE incrementingLoop(b, bytesPerNum, order, first, nNums, i + 1)

incrementing(b, bytesPerNum, order) ==
  IF Len(b) < bytesPerNum + 8 THEN FALSE
  ELSE incrementingLoop(b, bytesPerNum, order,
                        decode(order, SubSeq(b, 1, bytesPerNum)),
                        Len(b) \div bytesPerNum, 1)

Counting(b) ==
  \/ incrementing(b, 1, "LE")
  \/ incrementing(b, 2, "LE")
  \/ incrementing(b, 2, "BE")
  \/ incrementing(b, 4, "LE")
  \/ incrementing(b, 4, "BE")
  \/ incrementing(b, 8, "LE")
  \/ incrementing(b, 8, "BE")

\* a run of 8 bytes taken for 8 comparisons: one comparison too few
RepeatLimitSeven == 8 - 1

\* the number of equal comparisons in a row at which Repeated returns true
RepeatLimit == 8

\* the loop without the comparison of the last byte with the first
RECURSIVE RepeatedLoopNoWrap(_, _, _)
RepeatedLoopNoWrap(b, i, nRepeated) ==
  IF i >= Len(b) THEN FALSE
  ELSE IF b[i] = b[i + 1]
       THEN (IF nRepeated + 1 >= RepeatLimit THEN TRUE
             ELSE RepeatedLoopNoWrap(b, i + 1, nRepeated + 1))
       ELSE RepeatedLoopNoWrap(b, i + 1, 0)

\* the loop of Repeated: for i := 1; i <= nBytes; i++, comparing b[i-1] and
\* b[i%nBytes]
RECURSIVE RepeatedLoop(_, _, _)
RepeatedLoop(b, i, nRepeated) ==
  IF i > Len(b) THEN FALSE
  ELSE IF b[i] = b[(i % Len(b)) + 1]
       THEN (IF nRepeated + 1 >= RepeatLimit THEN TRUE
             ELSE RepeatedLoop(b, i + 1, nRepeated + 1))
       ELSE RepeatedLoop(b, i + 1, 0)

Repeated(b) == RepeatedLoop(b, 1, 0)

\* allOr after the loop "allOr |= v" over b, from byte(0)
allOr(b) == FromBits({j \in 0..7 : \E k \in 1..Len(b) : Bit(b[k], j) = 1})

\* allAnd started from byte(0): it stays 0
allAndFromZero(b) == FromBits({})

\* allAnd after the loop "allAnd &= v" over b, from byte(0xff)
allAnd(b) == FromBits({j \in 0..7 : \A k \in 1..Len(b) : Bit(b[k], j) = 1})

\* the shortest buffer BitStuck looks at
BitStuckMinLen == 64

BitStuck(b) ==
  IF Len(b) < BitStuckMinLen THEN FALSE
  ELSE (allOr(b) # 255) \/ (allAnd(b) # 0)

\* the shortest buffer DecimalHex looks at
DecimalHexMinLen == 45

DecimalHex(b) ==
  IF Len(b) < DecimalHexMinLen THEN FALSE
  ELSE \A k \in 1..Len(b) : ~((b[k] \div 16 >= 10) \/ (b[k] % 16 >= 10))

\* the tests in another order: Counting before Repeated
LooksRandomCountingFirst(b) ==
  IF Counting(b) THEN [ok |-> FALSE, reason |-> "Counting"]
  ELSE IF Repeated(b) THEN [ok |-> FALSE, reason |-> "Repeated bytes"]
  ELSE IF DecimalHex(b) THEN [ok |-> FALSE, reason |-> "Decimal digits as hex"]
  ELSE IF BitStuck(b) THEN [ok |-> FALSE, reason |-> "Bit stuck"]
  ELSE [ok |-> TRUE, reason |-> ""]

LooksRandom(b) ==
  IF Repeated(b) THEN [ok |-> FALSE, reason |-> "Repeated bytes"]
  ELSE IF Counting(b) THEN [ok |-> FALSE, reason |-> "Counting"]
  ELSE IF DecimalHex(b) THEN [ok |-> FALSE, reason |-> "Decimal digits as hex"]
  ELSE IF BitStuck(b) THEN [ok |-> FALSE, reason |-> "Bit stuck"]
  ELSE [ok |-> TRUE, reason |-> ""]

(***************************************************************************)
(* The uniqueness store: entities, secret, cipher                          *)
(***************************************************************************)

prefixBytes == 4

maxEntriesPerKey == 100

\* AES block size in bytes; a window of the submission is one block
BlockSize == 16

\* The handler cuts a submission to this many bytes before the store sees it.
MaxSubmit == 64

VARIABLES
  store,    \* the 'RB' kind: bucket key -> Hits (a list of entries, oldest first)
  secrets,  \* the 'SecretBytes' kind, in the order a query returns the records
  now,      \* time.Now().Unix()
  req,      \* one record per HTTP request: its inputs, locals and response
  buf,      \* the buffer handed to LooksRandom on its own
  verdict,  \* what LooksRandom returned for buf
  mc,       \* the memcache: key -> the item stored under it
  rl        \* one record per call of RateLimit: its arguments, locals and result

vars == <<store, secrets, now, req, buf, verdict, mc, rl>>

\* RngUniqueBytesEntry
Entry(trailing, t, uID, tag) ==
  [Trailing |-> trailing, Time |-> t, UserID |-> uID, Tag |-> tag]

\* i64: the first (at most 8) bytes as a little-endian integer, kept as
\* base-256 digits
i64(b) == ZeroPad(SubSeq(b, 1, IF Len(b) < 8 THEN Len(b) ELSE 8))

\* datastore.NewKey(ctx, "RB", "", 1+i64(chunk[0:prefixBytes]), nil)
bucketKey(chunk) == AddU64(i64(SubSeq(chunk, 1, prefixBytes)), 1)

\* chunk[prefixBytes:]
trailingOf(chunk) == SubSeq(chunk, prefixBytes + 1, Len(chunk))

\* cipher.Encrypt(dst, src) with the AES-128 key `secret`: a keyed bijection
\* on 16-byte blocks, deterministic (no initialisation vector).  The model's
\* bijection reverses the block and adds the key bytewise modulo 256.
Encrypt(secret, block) ==
  [j \in 1..BlockSize |-> (block[BlockSize + 1 - j] + secret[j]) % 256]

\* the loop at the head of unique: chunks[i] for i in 0..n-1
chunksOf(secret, b) ==
  [k \in 1..(Len(b) - (BlockSize - 1)) |-> Encrypt(secret, SubSeq(b, k, k + BlockSize - 1))]

\* datastore.Get / one element of GetMulti: a missing entity leaves Hits empty
Hits(st, key) == IF key \in DOMAIN st THEN st[key] ELSE <<>>

\* datastore.Put(ctx, key, hit)
PutHits(st, key, hits) ==
  [k \in (DOMAIN st) \cup {key} |-> IF k = key THEN hits ELSE st[k]]

(***************************************************************************)
(* write: the body of the transaction                                      *)
(***************************************************************************)

\* the old entry is left in place
removeNothing(hits, trailing) == hits

\* "Find and remove old entry (if any)"
removeOld(hits, trailing) == SelectSeq(hits, LAMBDA h : h.Trailing # trailing)

\* the overflow test off by one: a bucket of maxEntriesPerKey + 1 is kept
evictLate(hits) ==
  IF Len(hits) > maxEntriesPerKey + 1
  THEN SubSeq(hits, (Len(hits) \div 2) + 1, Len(hits))
  ELSE hits

\* the newer half thrown out instead of the older
evictNewest(hits) ==
  IF Len(hits) > maxEntriesPerKey
  THEN SubSeq(hits, 1, Len(hits) \div 2)
  ELSE hits

\* "Throw out half the old if bucket overflows"
evict(hits) ==
  IF Len(hits) > maxEntriesPerKey
  THEN SubSeq(hits, (Len(hits) \div 2) + 1, Len(hits))
  ELSE hits

\* hit.Hits as the transaction puts it back
writeHits(hits, chunk, t, uID, tag) ==
  evict(Append(removeOld(hits, trailingOf(chunk)), Entry(trailingOf(chunk), t, uID, tag)))

\* the read-modify-write outside a transaction: the put always goes through
txNeverConflicts(readHits, curHits) == FALSE

\* RunInTransaction commits only when the bucket is as the transaction read
\* it; otherwise the function is run again.
txConflict(readHits, curHits) == readHits # curHits

\* Attempts of RunInTransaction before it gives up with
\* ErrConcurrentTransaction.
TxAttempts == 3

(***************************************************************************)
(* unique: the scan of the fetched buckets                                 *)
(***************************************************************************)

\* the entries of vals[i] whose Trailing is that of chunks[i]
hitIndexes(vals, chunks, i) ==
  {j \in 1..Len(vals[i]) : vals[i][j].Trailing = trailingOf(chunks[i])}

\* the windows with a match, as model indexes (Go's i is one less)
matchingWindows(vals, chunks) ==
  {i \in 1..Len(chunks) : hitIndexes(vals, chunks, i) # {}}

Min(S) == CHOOSE x \in S : \A y \in S : x <= y

\* the scan going on to the last window with a match
lastMatch(vals, chunks) ==
  CHOOSE x \in matchingWindows(vals, chunks) : \A y \in matchingWindows(vals, chunks) : y <= x

\* for i, hit := range vals { for _, h := range hit.Hits { if equal: return }}
firstMatch(vals, chunks) == Min(matchingWindows(vals, chunks))

\* the first entry of the bucket returned instead of the one that matched
matchedEntryFirst(vals, chunks, i) == vals[i][1]

matchedEntry(vals, chunks, i) == vals[i][Min(hitIndexes(vals, chunks, i))]

(***************************************************************************)
(* unique: the error of the batch fetch                                    *)
(***************************************************************************)

\* An error value: nil, a plain error e, or an appengine.MultiError m with one
\* element per key ("" is a nil element).
NilError == [kind |-> "nil", e |-> "", m |-> <<>>]

PlainError(e) == [kind |-> "plain", e |-> e, m |-> <<>>]

MultiError(m) == [kind |-> "multi", e |-> "", m |-> m]

\* what datastore.GetMulti reports when nothing goes wrong: nil when every
\* entity exists, else a MultiError with ErrNoSuchEntity for the missing ones
fetchError(st, chunks) ==
  LET m == [k \in 1..Len(chunks) |->
              IF bucketKey(chunks[k]) \in DOMAIN st THEN "" ELSE "ErrNoSuchEntity"]
  IN IF \A k \in 1..Len(chunks) : m[k] = "" THEN NilError ELSE MultiError(m)

\* the errors datastore.GetMulti may return: the above, a plain error, or a
\* MultiError in which the fetches of the last two keys (of the only key)
\* failed for other reasons
GetMultiErrors(st, chunks) ==
  LET n == Len(chunks)
      m == [k \in 1..n |->
              IF bucketKey(chunks[k]) \in DOMAIN st THEN "" ELSE "ErrNoSuchEntity"]
  IN {fetchError(st, chunks),
      PlainError("ErrTimeout"),
      MultiError([k \in 1..n |-> IF k = n THEN "ErrB" ELSE IF k = n - 1 THEN "ErrA" ELSE m[k]])}

\* a missing entity taken for a failure
dealWithMultiErrorStrict(err) ==
  CASE err.kind = "nil" -> ""
    [] err.kind = "multi" ->
         LET bad == {k \in 1..Len(err.m) : err.m[k] # ""}
         IN IF bad = {} THEN "" ELSE err.m[Min(bad)]
    [] OTHER -> err.e

\* dealWithMultiError: "" is nil
dealWithMultiError(err) ==
  CASE err.kind = "nil" -> ""
    [] err.kind = "multi" ->
         LET bad == {k \in 1..Len(err.m) : err.m[k] \notin {"", "ErrNoSuchEntity"}}
         IN IF bad = {} THEN "" ELSE err.m[Min(bad)]
    [] OTHER -> err.e

(***************************************************************************)
(* Bounds and inputs                                                       *)
(***************************************************************************)

\* HTTP requests of one run
NumReq == 2

\* requests of one run when they are served one after the other
NumSeqReq == 2

\* the clock runs from 1 to MaxTime
MaxTime == 2

Req == 1..(IF NumReq > NumSeqReq THEN NumReq ELSE NumSeqReq)

\* Registered user ids ("" is a caller without a registered id) and the tag
\* each sends.
Users == {"", "alice", "bob"}

TagOf(u) == CASE u = "alice" -> "ta" [] u = "bob" -> "tb" [] OTHER -> ""

\* Values rand.Read may give the secret.
Secret1 == [j \in 1..BlockSize |-> j]

Secret2 == [j \in 1..BlockSize |-> (7 * j + 100) % 256]

SecretValues == {Secret1, Secret2}

\* 16-byte submissions that differ in their first byte only: under one secret
\* their fingerprints share the bucket and differ in Trailing.
FamTail == <<7, 201, 33, 150, 9, 77, 240, 18, 99, 5, 163, 44, 210, 3, 129>>

Fam(x) == <<x>> \o FamTail

\* An 18-byte submission (3 windows), its middle window alone, and a
\* submission that starts at its last window and runs on.
S18 == <<12, 250, 61, 7, 133, 98, 201, 45, 176, 3, 222, 64, 119, 31, 208, 85, 154, 17>>

Mid16 == SubSeq(S18, 2, 17)

Tail17 == SubSeq(S18, 3, 18) \o <<99>>

\* S18 after one more byte: its windows 1 and 3 (Go's indexes) are the first
\* and the last window of S18
Pre19 == <<77>> \o S18

\* A 64-byte submission and one of 65 bytes that the handler cuts to it.
L64 == [k \in 1..MaxSubmit |-> (k * k + 37 * k + 101 * (k \div 3)) % 256]

L65 == L64 \o <<42>>

\* Submissions the sanity tests reject, and one that is too short.
Zero16 == [k \in 1..BlockSize |-> 0]

Count16 == [k \in 1..BlockSize |-> k]

Short15 == SubSeq(S18, 1, 15)

\* what the store holds when the run starts: FillLevel earlier submissions
\* Fam(0), Fam(1), ... under Secret1, the first by alice
FillLevels == {0, maxEntriesPerKey - 1, maxEntriesPerKey}

FamChunk(x) == Encrypt(Secret1, Fam(x))

Prefilled(fill) ==
  [j \in 1..fill |->
     Entry(trailingOf(FamChunk(j - 1)), 0,
           IF j = 1 THEN "alice" ELSE "", IF j = 1 THEN "ta" ELSE "")]

ConcInputs ==
  {Fam(0), Fam(maxEntriesPerKey), Fam(maxEntriesPerKey + 1), S18, Zero16}

SeqInputs ==
  {Fam(0), Fam(maxEntriesPerKey), S18, Mid16, Tail17, Pre19, L64, L65, Zero16, Count16,
   Short15}

(***************************************************************************)
(* Requests                                                                *)
(***************************************************************************)

NoVerdict == [ok |-> FALSE, reason |-> "not run"]

IdleReq ==
  [pc |-> "idle", b |-> <<>>, uID |-> "", tag |-> "", secret |-> <<>>,
   chunks |-> <<>>, vals |-> <<>>, match |-> <<>>, i |-> 0, t |-> 0,
   tx |-> "", hit |-> <<>>, attempts |-> 0, wfail |-> FALSE, err |-> "",
   merr |-> NilError,
   sanity |-> NoVerdict, response |-> "", usage |-> "", notes |-> {}]

WritePcs == {"refresh", "writeFirst", "writeLast"}

Active == {q \in Req : req[q].pc \notin {"idle", "done"}}

\* the handler returns: its locals die, its response stands
Done(r, response, usage, notes) ==
  [r EXCEPT !.pc = "done", !.chunks = <<>>, !.vals = <<>>, !.tx = "",
            !.hit = <<>>, !.t = 0, !.merr = NilError,
            !.response = response, !.usage = usage, !.notes = notes]

\* notify(ctx, uID, tag, b, reason), as the call made
Note(uID, tag, reason) == [to |-> uID, tag |-> tag, reason |-> reason]

\* a call of write(ctx, chunk, time.Now().Unix(), uID, tag) begins
CallWrite(r, pc) == [r EXCEPT !.pc = pc, !.tx = "get", !.attempts = 0, !.t = now]

\* the first window written a second time in place of the last
wChunkFirstAgain(r) ==
  CASE r.pc = "refresh" -> r.chunks[r.i + 1]
    [] OTHER -> r.chunks[1]

\* the arguments of the write in progress
wChunk(r) ==
  CASE r.pc = "refresh" -> r.chunks[r.i + 1]
    [] r.pc = "writeFirst" -> r.chunks[1]
    [] r.pc = "writeLast" -> r.chunks[Len(r.chunks)]

\* the refresh keeps the caller's id
wUIDCaller(r) == r.uID

wUID(r) == IF r.pc = "refresh" THEN "" ELSE r.uID

wTag(r) == IF r.pc = "refresh" THEN "" ELSE r.tag

\* "Fail_"+reason
FailUsage(reason) ==
  CASE reason = "Repeated bytes" -> "Fail_Repeated bytes"
    [] reason = "Counting" -> "Fail_Counting"
    [] reason = "Decimal digits as hex" -> "Fail_Decimal digits as hex"
    [] reason = "Bit stuck" -> "Fail_Bit stuck"

\* the verdict of LooksRandom ignored
passesSanityAlways(b) == TRUE

\* whether the handler goes on to the uniqueness check
passesSanity(b) == LooksRandom(b).ok

\* submitBytesHandler up to the call of looksUnique
Arrive(p, inputs, maxActive) ==
  /\ req[p].pc = "idle"
  /\ IF p = 1 THEN TRUE ELSE req[p - 1].pc # "idle"
  /\ Cardinality(Active) < maxActive
  /\ \E sub \in inputs, u \in Users, rate \in {"ok", "limited", "error"} :
       LET v == LooksRandom(sub)
           r == [req[p] EXCEPT !.b = sub, !.uID = u, !.tag = TagOf(u)]
           rs == [r EXCEPT !.sanity = v]
       IN req' = [req EXCEPT ![p] =
            IF Len(sub) < BlockSize THEN Done(r, "400 Must provide 16 or more bytes", "", {})
            ELSE IF rate = "limited" THEN Done(r, "429 Request limit exceeded", "", {})
            ELSE IF rate = "error" THEN Done(r, "500 RateLimit error", "", {})
            ELSE IF ~passesSanity(sub)
                 THEN Done(rs, "false", FailUsage(v.reason), {Note(u, TagOf(u), v.reason)})
            ELSE [rs EXCEPT !.pc = "secretKey",
                           !.b = IF Len(sub) > MaxSubmit THEN SubSeq(sub, 1, MaxSubmit) ELSE sub]]
  /\ UNCHANGED <<store, secrets, now, buf, verdict, mc, rl>>

\* unique returns the error e: looksUnique answers 500 with e's text and the
\* handler returns
Failed(r, e) == [Done(r, "500", "", {}) EXCEPT !.err = e, !.merr = r.merr]

\* secretKey: the query, and rand.Read when there is no secret yet
SecretQuery(p) ==
  /\ req[p].pc = "secretKey"
  /\ \/ req' = [req EXCEPT ![p] = Failed(req[p], "ErrQuery")]
     \/ /\ secrets = <<>>
        /\ \/ req' = [req EXCEPT ![p] = Failed(req[p], "ErrRand")]
           \/ \E s \in SecretValues :
                req' = [req EXCEPT ![p] = [req[p] EXCEPT !.pc = "secretPut", !.secret = s]]
     \/ /\ secrets # <<>>
        /\ req' = [req EXCEPT ![p] = [req[p] EXCEPT !.pc = "GetMulti", !.secret = secrets[1]]]
  /\ UNCHANGED <<store, secrets, now, buf, verdict, mc, rl>>

\* secretKey: datastore.Put of the new secret under an incomplete key; the
\* datastore allocates the id, so the record lands anywhere in query order
SecretPut(p) ==
  /\ req[p].pc = "secretPut"
  /\ \/ /\ req' = [req EXCEPT ![p] = Failed(req[p], "ErrPut")]
        /\ UNCHANGED secrets
     \/ /\ \E pos \in 0..Len(secrets) :
             secrets' = SubSeq(secrets, 1, pos) \o <<req[p].secret>>
                        \o SubSeq(secrets, pos + 1, Len(secrets))
        /\ req' = [req EXCEPT ![p] = [req[p] EXCEPT !.pc = "GetMulti"]]
  /\ UNCHANGED <<store, now, buf, verdict, mc, rl>>

\* unique from the encryption to the end of the scan
GetMulti(p) ==
  /\ req[p].pc = "GetMulti"
  /\ LET r == req[p]
         chunks == chunksOf(r.secret, r.b)
         vals == [k \in 1..Len(chunks) |-> Hits(store, bucketKey(chunks[k]))]
     IN \E ge \in GetMultiErrors(store, chunks) :
          LET rr == [r EXCEPT !.chunks = chunks, !.vals = vals, !.merr = ge]
              e == dealWithMultiError(ge)
          IN req' = [req EXCEPT ![p] =
               IF e # "" THEN Failed(rr, e)
               ELSE IF matchingWindows(vals, chunks) # {}
                    THEN LET i == firstMatch(vals, chunks)
                         IN CallWrite([rr EXCEPT !.match = <<matchedEntry(vals, chunks, i)>>,
                                                 !.i = i - 1], "refresh")
               ELSE CallWrite(rr, "writeFirst")]
  /\ UNCHANGED <<store, secrets, now, buf, verdict, mc, rl>>

\* looksUnique after unique has returned a match
Matched(r) ==
  Done(r, "false", "Fail_Nonunique",
       {Note(r.uID, r.tag, "Non Unique")}
       \cup (IF r.match[1].UserID # "" /\ r.match[1].UserID # r.uID
             THEN {Note(r.match[1].UserID, r.match[1].Tag, "Non Unique")}
             ELSE {}))

\* write has returned err ("" is nil); what unique and the handler do next.
\* wfail remembers that a write of the request returned an error.
writeReturn(r, err) ==
  LET rw == [r EXCEPT !.wfail = r.wfail \/ (err # "")]
  IN CASE r.pc = "refresh" -> Matched(rw)
       [] r.pc = "writeFirst" ->
            IF err = "" /\ Len(r.chunks) > 1 THEN CallWrite(rw, "writeLast")
            ELSE IF err # "" THEN Failed(rw, err)
            ELSE Done(rw, "true", "Success", {})
       [] r.pc = "writeLast" ->
            IF err # "" THEN Failed(rw, err) ELSE Done(rw, "true", "Success", {})

\* write: datastore.Get inside the transaction
TxGet(p) ==
  /\ req[p].pc \in WritePcs
  /\ req[p].tx = "get"
  /\ \/ req' = [req EXCEPT ![p] = writeReturn(req[p], "ErrDatastore")]
     \/ req' = [req EXCEPT ![p] =
          [req[p] EXCEPT !.tx = "put", !.hit = Hits(store, bucketKey(wChunk(req[p])))]]
  /\ UNCHANGED <<store, secrets, now, buf, verdict, mc, rl>>

\* write: datastore.Put and the commit of the transaction
TxPut(p) ==
  /\ req[p].pc \in WritePcs
  /\ req[p].tx = "put"
  /\ LET r == req[p]
         key == bucketKey(wChunk(r))
     IN \/ /\ req' = [req EXCEPT ![p] = writeReturn(r, "ErrDatastore")]
           /\ UNCHANGED store
        \/ /\ ~txConflict(r.hit, Hits(store, key))
           /\ store' = PutHits(store, key, writeHits(r.hit, wChunk(r), r.t, wUID(r), wTag(r)))
           /\ req' = [req EXCEPT ![p] = writeReturn(r, "")]
        \/ /\ txConflict(r.hit, Hits(store, key))
           /\ UNCHANGED store
           /\ req' = [req EXCEPT ![p] =
                IF r.attempts + 1 < TxAttempts
                THEN [r EXCEPT !.tx = "get", !.attempts = r.attempts + 1, !.hit = <<>>]
                ELSE writeReturn(r, "ErrConcurrentTransaction")]
  /\ UNCHANGED <<secrets, now, buf, verdict, mc, rl>>

\* a second passes
Tick ==
  /\ now < MaxTime
  /\ now' = now + 1
  /\ UNCHANGED <<store, secrets, req, buf, verdict, mc, rl>>

(***************************************************************************)
(* ratelimit.go: RateLimit                                                 *)
(***************************************************************************)

\* calls of RateLimit in one run
NumCalls == 3

\* the largest max a call is made with
MaxRate == 2

\* memcache keys (IPKey of two addresses)
RateKeys == {"q10.0.0.1", "q10.0.0.2"}

Calls == 1..NumCalls

IdleCall ==
  [pc |-> "idle", key |-> "", max |-> 0, value |-> 0, item |-> <<>>,
   limited |-> FALSE, err |-> FALSE, raced |-> FALSE]

\* the counter started one too high
initialValueOneMore(max) == max + 2

\* the initial value handed to memcache.Increment
initialValue(max) == max + 1

\* memcache.Increment(ctx, key, -1, initial): the value after the step; a
\* missing key is populated with initial first, underflow is capped to zero
Increment(cache, key, initial) ==
  LET cur == IF key \in DOMAIN cache THEN cache[key].value ELSE initial
  IN IF cur = 0 THEN 0 ELSE cur - 1

\* RateLimit returns
Return(c, limited, err) == [c EXCEPT !.pc = "done", !.limited = limited, !.err = err]

\* RateLimit up to the test of the value: the increment is one atomic
\* operation of the memcache
RateLimit(i) ==
  /\ rl[i].pc = "idle"
  /\ IF i = 1 THEN TRUE ELSE rl[i - 1].pc # "idle"
  /\ \E key \in RateKeys, max \in 0..MaxRate :
       LET c == [rl[i] EXCEPT !.key = key, !.max = max]
           value == Increment(mc, key, initialValue(max))
           cv == [c EXCEPT !.value = value]
       IN \/ /\ rl' = [rl EXCEPT ![i] = Return(c, FALSE, TRUE)]
             /\ UNCHANGED mc
          \/ /\ mc' = [k \in (DOMAIN mc) \cup {key} |->
                        IF k = key
                        THEN [value |-> value,
                              expiration |-> IF key \in DOMAIN mc THEN mc[key].expiration
                                             ELSE "none"]
                        ELSE mc[k]]
             /\ rl' = [rl EXCEPT ![i] =
                  IF value = 0 THEN Return(cv, TRUE, FALSE)
                  ELSE IF value = max THEN [cv EXCEPT !.pc = "get"]
                  ELSE Return(cv, FALSE, FALSE)]
  /\ UNCHANGED <<store, secrets, now, req, buf, verdict>>

\* item, err := memcache.Get(ctx, key)
RateLimitGet(i) ==
  /\ rl[i].pc = "get"
  /\ \/ rl' = [rl EXCEPT ![i] = Return(rl[i], FALSE, TRUE)]
     \/ rl' = [rl EXCEPT ![i] = [rl[i] EXCEPT !.pc = "set", !.item = <<mc[rl[i].key]>>]]
  /\ UNCHANGED <<store, secrets, now, req, buf, verdict, mc>>

\* item.Expiration = timespan; memcache.Set(ctx, item), its error ignored.
\* raced remembers that the item written was not the one the key then held.
RateLimitSet(i) ==
  /\ rl[i].pc = "set"
  /\ LET c == rl[i]
         item == [c.item[1] EXCEPT !.expiration = "timespan"]
     IN \/ /\ UNCHANGED mc
           /\ rl' = [rl EXCEPT ![i] = Return(c, FALSE, FALSE)]
        \/ /\ mc' = [mc EXCEPT ![c.key] = item]
           /\ rl' = [rl EXCEPT ![i] =
                Return([c EXCEPT !.raced = (mc[c.key].value # item.value)], FALSE, FALSE)]
  /\ UNCHANGED <<store, secrets, now, req, buf, verdict>>

(***************************************************************************)
(* Specifications                                                          *)
(***************************************************************************)

EmptyStore == [k \in {} |-> <<>>]

EmptyCache == [k \in {} |-> [value |-> 0, expiration |-> "none"]]

InitStore ==
  \E fill \in FillLevels :
    /\ store = IF fill = 0 THEN EmptyStore
               ELSE [k \in {bucketKey(FamChunk(0))} |-> Prefilled(fill)]
    /\ secrets = IF fill = 0 THEN <<>> ELSE <<Secret1>>

Init ==
  /\ InitStore
  /\ now = 1
  /\ req = [p \in Req |-> IdleReq]
  /\ buf = <<>>
  /\ verdict = NoVerdict
  /\ mc = EmptyCache
  /\ rl = [c \in Calls |-> IdleCall]

\* requests served concurrently
Next ==
  \/ \E p \in 1..NumReq : Arrive(p, ConcInputs, NumReq)
  \/ \E p \in Req : SecretQuery(p)
  \/ \E p \in Req : SecretPut(p)
  \/ \E p \in Req : GetMulti(p)
  \/ \E p \in Req : TxGet(p)
  \/ \E p \in Req : TxPut(p)
  \/ Tick

Spec == Init /\ [][Next]_vars

\* requests served one after the other
NextSeq ==
  \/ \E p \in 1..NumSeqReq : Arrive(p, SeqInputs, 1)
  \/ \E p \in Req : SecretQuery(p)
  \/ \E p \in Req : SecretPut(p)
  \/ \E p \in Req : GetMulti(p)
  \/ \E p \in Req : TxGet(p)
  \/ \E p \in Req : TxPut(p)
  \/ Tick

SpecSeq == Init /\ [][NextSeq]_vars

\* the submissions that share windows with S18
MatchInputs == {S18, Mid16, Tail17, Pre19}

\* the store after alice's S18 was recorded at time 0 under Secret1: the
\* entries of its first and its last window
StoreAfterS18 ==
  LET c == chunksOf(Secret1, S18)
      first == PutHits(EmptyStore, bucketKey(c[1]),
                       writeHits(<<>>, c[1], 0, "alice", "ta"))
  IN PutHits(first, bucketKey(c[Len(c)]),
             writeHits(Hits(first, bucketKey(c[Len(c)])), c[Len(c)], 0, "alice", "ta"))

\* requests served one after the other, all sharing windows with S18, on
\* an empty store or on the store that already holds S18
InitMatch ==
  /\ \/ store = EmptyStore /\ secrets = <<>>
     \/ store = StoreAfterS18 /\ secrets = <<Secret1>>
  /\ now = 1
  /\ req = [p \in Req |-> IdleReq]
  /\ buf = <<>>
  /\ verdict = NoVerdict
  /\ mc = EmptyCache
  /\ rl = [c \in Calls |-> IdleCall]

NextMatch ==
  \/ \E p \in 1..NumSeqReq : Arrive(p, MatchInputs, 1)
  \/ \E p \in Req : SecretQuery(p)
  \/ \E p \in Req : SecretPut(p)
  \/ \E p \in Req : GetMulti(p)
  \/ \E p \in Req : TxGet(p)
  \/ \E p \in Req : TxPut(p)
  \/ Tick

SpecMatch == InitMatch /\ [][NextMatch]_vars

\* calls of RateLimit, concurrent, on an empty memcache
InitRate ==
  /\ store = EmptyStore
  /\ secrets = <<>>
  /\ now = 1
  /\ req = [p \in Req |-> IdleReq]
  /\ buf = <<>>
  /\ verdict = NoVerdict
  /\ mc = EmptyCache
  /\ rl = [c \in Calls |-> IdleCall]

NextRate ==
  \/ \E i \in Calls : RateLimit(i)
  \/ \E i \in Calls : RateLimitGet(i)
  \/ \E i \in Calls : RateLimitSet(i)

SpecRate == InitRate /\ [][NextRate]_vars

(***************************************************************************)
(* LooksRandom on its own: the buffers tried                               *)
(***************************************************************************)

\* every buffer over {0, 1} of at most this many bytes is tried
MaxBufLen == 11

RECURSIVE SeqsOf(_, _)
SeqsOf(S, n) ==
  IF n = 0 THEN {<<>>}
  ELSE {Append(s, x) : s \in SeqsOf(S, n - 1), x \in S}

BinaryBuffers == UNION {SeqsOf({0, 1}, n) : n \in 0..MaxBufLen}

\* pat repeated to n bytes
Cycle(pat, n) == [k \in 1..n |-> pat[((k - 1) % Len(pat)) + 1]]

\* short patterns: decimal digits only (0x12 0x34 0x56), a stuck bit with hex
\* letters (0x1a 0x2b 0x3c), every bit moving (0xff 0x00 0x5a), a counter
\* that runs over the end of the byte, and every bit alternating (0x5a 0xa5)
Patterns ==
  {<<18, 52, 86>>, <<26, 43, 60>>, <<255, 0, 90>>, <<153, 2, 80, 152>>, <<90, 165>>}

PatternLens ==
  {DecimalHexMinLen - 1, DecimalHexMinLen, BitStuckMinLen - 1, BitStuckMinLen,
   BitStuckMinLen + 1}

PatternBuffers == {Cycle(pat, n) : pat \in Patterns, n \in PatternLens}

\* buffers flagged by more than one test
MixedBuffers ==
  {[k \in 1..BlockSize |-> IF k = BlockSize THEN 1 ELSE 0],
   [k \in 1..BitStuckMinLen |-> k],
   [k \in 1..DecimalHexMinLen |-> k - 1]}

\* the table of TestLooksRandom
CorpusCounting ==
  {[bytes |-> <<1, 2, 3, 4, 5, 6, 7, 8, 9>>, want |-> FALSE],
   [bytes |-> <<24, 25, 26, 27, 28, 29, 30, 31, 32>>, want |-> FALSE],
   [bytes |-> <<0, 0, 0, 1, 0, 2, 0, 3, 0, 4>>, want |-> FALSE],
   [bytes |-> <<153, 145, 153, 146, 153, 147, 153, 148, 153, 149>>, want |-> FALSE],
   [bytes |-> <<0, 0, 1, 0, 2, 0, 3, 0, 4, 0>>, want |-> FALSE],
   [bytes |-> <<145, 153, 146, 153, 147, 153, 148, 153, 149, 153>>, want |-> FALSE],
   [bytes |-> <<0, 0, 0, 1, 0, 0, 0, 2, 0, 0, 0, 3>>, want |-> FALSE],
   [bytes |-> <<17, 17, 17, 31, 17, 17, 17, 32, 17, 17, 17, 33>>, want |-> FALSE],
   [bytes |-> <<1, 0, 0, 0, 2, 0, 0, 0, 3, 0, 0, 0>>, want |-> FALSE],
   [bytes |-> <<31, 17, 17, 17, 32, 17, 17, 17, 33, 17, 17, 17>>, want |-> FALSE],
   [bytes |-> <<0, 0, 0, 0, 0, 0, 0, 1, 0, 0, 0, 0, 0, 0, 0, 2>>, want |-> FALSE],
   [bytes |-> <<172, 128, 212, 0, 248, 205, 89, 70, 172, 128, 212, 0, 248, 205, 89, 71>>, want |-> FALSE],
   [bytes |-> <<78, 220, 40, 55, 229, 66, 65, 255, 78, 220, 40, 55, 229, 66, 66, 0>>, want |-> FALSE],
   [bytes |-> <<1, 0, 0, 0, 0, 0, 0, 0, 2, 0, 0, 0, 0, 0, 0, 0>>, want |-> FALSE],
   [bytes |-> <<255, 65, 50, 229, 55, 40, 220, 78, 0, 66, 50, 229, 55, 40, 220, 78>>, want |-> FALSE]}

CorpusRepeated ==
  {[bytes |-> <<0>>, want |-> TRUE],
   [bytes |-> <<255>>, want |-> TRUE],
   [bytes |-> <<0, 0, 0, 0, 0, 0, 0>>, want |-> TRUE],
   [bytes |-> <<0, 0, 0, 0, 0, 0, 0, 0>>, want |-> FALSE],
   [bytes |-> <<255, 255, 255, 255, 255, 255, 255, 255>>, want |-> FALSE],
   [bytes |-> <<255, 255, 255, 254, 255, 255, 255, 255>>, want |-> TRUE],
   [bytes |-> <<1, 0, 0, 0, 0, 0, 0, 0>>, want |-> TRUE],
   [bytes |-> <<255, 0, 0, 0, 0, 0, 0, 0, 0, 0, 255>>, want |-> FALSE],
   [bytes |-> <<0, 255, 255, 255, 255, 255, 255, 255, 255, 255, 0>>, want |-> FALSE],
   [bytes |-> <<170, 170, 170, 170, 170, 170, 170, 171>>, want |-> TRUE],
   [bytes |-> <<170, 170, 170, 170, 170, 170, 170, 170>>, want |-> FALSE],
   [bytes |-> <<255, 170, 170, 170, 170, 170, 170, 170, 170, 170, 187>>, want |-> FALSE],
   [bytes |-> <<57, 57, 57, 57, 57, 57, 57, 171>>, want |-> TRUE],
   [bytes |-> <<57, 57, 57, 57, 57, 57, 57, 57>>, want |-> FALSE],
   [bytes |-> <<255, 57, 57, 57, 57, 57, 57, 57, 57, 57, 187>>, want |-> FALSE]}

CorpusStuck ==
  {[bytes |-> <<19, 109, 61, 21, 53, 22, 36, 75, 42, 54, 109, 123, 64, 17, 49, 82, 61, 69, 59, 112, 31, 75, 124, 109, 57, 72, 7, 16, 86, 27, 94, 10, 19, 109, 61, 21, 53, 22, 36, 75, 42, 54, 109, 123, 64, 17, 49, 82, 61, 69, 59, 112, 31, 75, 124, 109, 57, 72, 7, 16, 86, 27, 94, 10>>, want |-> FALSE],
   [bytes |-> <<19, 173, 189, 149, 181, 22, 36, 139, 170, 54, 173, 59, 128, 17, 177, 18, 61, 5, 59, 176, 159, 11, 60, 45, 185, 8, 7, 144, 150, 27, 30, 10, 19, 173, 189, 149, 181, 22, 36, 139, 170, 54, 173, 59, 128, 17, 177, 18, 61, 5, 59, 176, 159, 11, 60, 45, 185, 8, 7, 144, 150, 27, 30, 10>>, want |-> FALSE],
   [bytes |-> <<19, 205, 157, 149, 149, 22, 4, 203, 138, 22, 205, 91, 192, 17, 145, 82, 29, 69, 27, 208, 159, 75, 92, 77, 153, 72, 7, 144, 214, 27, 94, 10, 19, 205, 157, 149, 149, 22, 4, 203, 138, 22, 205, 91, 192, 17, 145, 82, 29, 69, 27, 208, 159, 75, 92, 77, 153, 72, 7, 144, 214, 27, 94, 10>>, want |-> FALSE],
   [bytes |-> <<17, 237, 189, 149, 181, 20, 36, 201, 168, 52, 237, 121, 192, 17, 177, 80, 61, 69, 57, 240, 157, 73, 124, 109, 185, 72, 5, 144, 212, 25, 92, 8, 17, 237, 189, 149, 181, 20, 36, 201, 168, 52, 237, 121, 192, 17, 177, 80, 61, 69, 57, 240, 157, 73, 124, 109, 185, 72, 5, 144, 212, 25, 92, 8>>, want |-> FALSE],
   [bytes |-> <<18, 236, 188, 148, 180, 22, 36, 202, 170, 54, 236, 122, 192, 16, 176, 82, 60, 68, 58, 240, 158, 74, 124, 108, 184, 72, 6, 144, 214, 26, 94, 10, 18, 236, 188, 148, 180, 22, 36, 202, 170, 54, 236, 122, 192, 16, 176, 82, 60, 68, 58, 240, 158, 74, 124, 108, 184, 72, 6, 144, 214, 26, 94, 10>>, want |-> FALSE],
   [bytes |-> <<19, 239, 191, 151, 183, 22, 38, 203, 170, 54, 239, 123, 194, 19, 179, 82, 63, 71, 59, 242, 159, 75, 126, 111, 187, 74, 7, 146, 214, 27, 94, 10, 19, 239, 191, 151, 183, 22, 38, 203, 170, 54, 239, 123, 194, 19, 179, 82, 63, 71, 59, 242, 159, 75, 126, 111, 187, 74, 7, 146, 214, 27, 94, 10>>, want |-> FALSE]}

CorpusRandom ==
  {[bytes |-> <<139>>, want |-> TRUE],
   [bytes |-> <<108, 114>>, want |-> TRUE],
   [bytes |-> <<48, 125, 217>>, want |-> TRUE],
   [bytes |-> <<105, 243, 23, 30>>, want |-> TRUE],
   [bytes |-> <<100, 152, 10, 214, 22>>, want |-> TRUE],
   [bytes |-> <<187, 3, 147, 149, 248, 222>>, want |-> TRUE],
   [bytes |-> <<14, 238, 88, 196, 4, 200, 43>>, want |-> TRUE],
   [bytes |-> <<180, 91, 35, 126, 236, 160, 197, 157>>, want |-> TRUE],
   [bytes |-> <<29, 105, 223, 104, 48, 105, 36, 98, 130>>, want |-> TRUE],
   [bytes |-> <<129, 166, 206, 250, 54, 117, 237, 111, 4, 185>>, want |-> TRUE],
   [bytes |-> <<20, 61, 146, 204, 10, 192, 197, 148, 22, 153, 103>>, want |-> TRUE],
   [bytes |-> <<163, 213, 190, 2, 213, 183, 122, 68, 121, 61, 204, 180>>, want |-> TRUE],
   [bytes |-> <<152, 170, 141, 145, 214, 215, 50, 216, 140, 57, 200, 206, 236>>, want |-> TRUE],
   [bytes |-> <<59, 29, 149, 81, 223, 64, 201, 51, 5, 65, 193, 122, 126, 210>>, want |-> TRUE],
   [bytes |-> <<53, 105, 130, 243, 243, 160, 164, 138, 19, 223, 149, 36, 90, 115, 48>>, want |-> TRUE],
   [bytes |-> <<228, 125, 37, 62, 69, 204, 250, 101, 244, 68, 147, 103, 122, 175, 86, 174>>, want |-> TRUE],
   [bytes |-> <<146, 244, 117, 45, 191, 204, 35, 218, 67, 60, 154, 135, 89, 204, 103, 179, 48>>, want |-> TRUE],
   [bytes |-> <<23, 199, 161, 250, 224, 244, 162, 217, 239, 171, 78, 64, 129, 246, 26, 252, 73, 112>>, want |-> TRUE],
   [bytes |-> <<218, 132, 69, 167, 43, 28, 128, 175, 253, 73, 52, 111, 54, 203, 99, 66, 158, 174, 16>>, want |-> TRUE],
   [bytes |-> <<190, 93, 150, 244, 167, 2, 115, 201, 96, 179, 206, 39, 153, 125, 110, 56, 138, 172, 94, 107>>, want |-> TRUE],
   [bytes |-> <<23, 135, 46, 58, 173, 178, 48, 205, 238, 195, 83, 53, 252, 109, 62, 75, 244, 204, 196, 91, 41>>, want |-> TRUE],
   [bytes |-> <<233, 197, 248, 129, 156, 134, 27, 110, 88, 175, 16, 231, 114, 51, 234, 192, 115, 40, 161, 181, 20, 102>>, want |-> TRUE],
   [bytes |-> <<72, 253, 55, 0, 254, 169, 81, 84, 22, 82, 127, 88, 52, 81, 154, 178, 92, 228, 24, 225, 82, 231, 194>>, want |-> TRUE],
   [bytes |-> <<219, 128, 84, 10, 75, 202, 1, 225, 242, 24, 251, 49, 98, 175, 227, 237, 109, 69, 82, 254, 168, 146, 40, 187>>, want |-> TRUE],
   [bytes |-> <<201, 108, 134, 43, 199, 79, 166, 214, 210, 240, 38, 134, 139, 122, 97, 30, 22, 80, 171, 40, 80, 14, 177, 97, 219>>, want |-> TRUE],
   [bytes |-> <<68, 252, 232, 79, 122, 56, 190, 149, 50, 202, 245, 106, 213, 184, 145, 31, 87, 86, 98, 158, 132, 2, 119, 138, 97, 241>>, want |-> TRUE],
   [bytes |-> <<141, 99, 118, 116, 200, 9, 189, 42, 183, 178, 10, 109, 174, 147, 145, 118, 164, 237, 127, 181, 78, 149, 225, 164, 163, 29, 182>>, want |-> TRUE],
   [bytes |-> <<78, 129, 16, 147, 25, 94, 158, 114, 54, 160, 113, 198, 195, 134, 101, 12, 55, 70, 97, 213, 12, 216, 2, 184, 108, 251, 228, 163>>, want |-> TRUE],
   [bytes |-> <<25, 77, 97, 189, 214, 40, 243, 128, 145, 103, 70, 246, 128, 78, 170, 131, 247, 145, 159, 168, 125, 255, 211, 190, 232, 12, 27, 75, 232>>, want |-> TRUE],
   [bytes |-> <<209, 214, 72, 190, 120, 74, 121, 176, 253, 224, 162, 247, 149, 98, 193, 87, 102, 67, 240, 211, 34, 255, 115, 22, 61, 217, 96, 201, 167, 160>>, want |-> TRUE],
   [bytes |-> <<71, 36, 179, 7, 175, 97, 34, 136, 57, 88, 49, 135, 64, 22, 237, 228, 243, 186, 45, 65, 223, 64, 195, 136, 79, 31, 241, 185, 192, 90, 195>>, want |-> TRUE],
   [bytes |-> <<19, 237, 189, 149, 181, 22, 36, 203, 170, 54, 237, 123, 192, 17, 177, 82, 61, 69, 59, 240, 159, 75, 124, 109, 185, 72, 7, 144, 214, 27, 94, 10>>, want |-> TRUE]}

Corpus == CorpusCounting \cup CorpusRepeated \cup CorpusStuck \cup CorpusRandom

\* the digits (least significant first) of a counter of Len(x) bytes after one
\* more step; the counter starts again at 0 after its largest value
RECURSIVE NextCount(_, _)
NextCount(x, k) ==
  IF k > Len(x) THEN x
  ELSE IF x[k] = 255 THEN NextCount([x EXCEPT ![k] = 0], k + 1)
  ELSE [x EXCEPT ![k] = x[k] + 1]

\* n successive values of the counter from seed on, written in byte order
RECURSIVE CounterBytes(_, _, _)
CounterBytes(order, seed, n) ==
  IF n = 0 THEN <<>>
  ELSE (IF order = "BE" THEN Reverse(seed) ELSE seed)
       \o CounterBytes(order, NextCount(seed, 1), n - 1)

\* seeds of 1, 2, 4 and 8 bytes: plain ones, ones with a carry into the next
\* byte, and ones next to the largest value of the width
CountingSeeds ==
  {<<1>>, <<247>>, <<250>>,
   <<0, 0>>, <<253, 17>>, <<253, 255>>,
   <<254, 255, 255, 0>>, <<254, 255, 255, 255>>,
   <<255, 3, 0, 9, 0, 0, 0, 44>>, <<254, 255, 255, 255, 255, 255, 255, 255>>}

\* buffers written by a counter: one byte too short for the test, just long
\* enough, a byte more, and a number more
CountingBuffers ==
  {SubSeq(CounterBytes(order, seed, (len \div Len(seed)) + 1), 1, len) :
     order \in {"LE", "BE"}, seed \in CountingSeeds,
     len \in UNION {{Len(sd) + 7, Len(sd) + 8, Len(sd) + 9, 2 * Len(sd) + 8} :
                      sd \in CountingSeeds}}

PureBuffers ==
  BinaryBuffers \cup PatternBuffers \cup MixedBuffers \cup CountingBuffers
    \cup {c.bytes : c \in Corpus}

InitPure ==
  /\ buf \in PureBuffers
  /\ verdict = NoVerdict
  /\ store = EmptyStore
  /\ secrets = <<>>
  /\ now = 1
  /\ req = [p \in Req |-> IdleReq]
  /\ mc = EmptyCache
  /\ rl = [c \in Calls |-> IdleCall]

\* result, reason := LooksRandom(b)
RunLooksRandom ==
  /\ verdict = NoVerdict
  /\ verdict' = LooksRandom(buf)
  /\ UNCHANGED <<store, secrets, now, req, buf, mc, rl>>

NextPure == RunLooksRandom

SpecPure == InitPure /\ [][NextPure]_vars

(***************************************************************************)
(* Properties of the sanity tests (SpecPure)                               *)
(***************************************************************************)

Evaluated == verdict # NoVerdict

\* Repeated(buf) returned true: it is the first test of LooksRandom
FlaggedRepeated == verdict.reason = "Repeated bytes"

\* C8: LooksRandom returns (false, reason) with the reason of the first test
\* that flags the buffer, in the order Repeated, Counting, DecimalHex,
\* BitStuck; it returns (true, "") exactly when none of the four flags it; the
\* result is true exactly when the reason is empty.
C8_LooksRandomComposite ==
  Evaluated =>
    LET flags == <<Repeated(buf), Counting(buf), DecimalHex(buf), BitStuck(buf)>>
        reasons == <<"Repeated bytes", "Counting", "Decimal digits as hex", "Bit stuck">>
        flagged == {k \in 1..4 : flags[k]}
    IN /\ verdict.ok <=> (verdict.reason = "")
       /\ verdict.ok <=> (flagged = {})
       /\ flagged # {} => verdict.reason = reasons[Min(flagged)]

\* C8's case: a buffer both Repeated and Counting flag is reported as repeated
C8_Witness == Evaluated /\ FlaggedRepeated /\ Counting(buf)

\* len identical bytes in a row from position s on, read circularly
CircularRun(b, s, len) ==
  \A d \in 0..(len - 1) : b[((s - 1 + d) % Len(b)) + 1] = b[s]

\* C9 as stated: every buffer of length >= 9 that contains a run of at least
\* 8 identical consecutive bytes, read circularly, is flagged by Repeated.
C9_RunOfEightFlagged ==
  (Evaluated /\ Len(buf) >= 9 /\ \E s \in 1..Len(buf) : CircularRun(buf, s, 8))
    => FlaggedRepeated

\* C9 as amended: every buffer of length >= 9 that contains a run of at least
\* 9 identical consecutive bytes is flagged by Repeated, where the run may
\* wrap only by ending on the first byte (the last 8 bytes and the first byte
\* identical).
C9_RunOfNineFlagged ==
  (Evaluated /\ Len(buf) >= 9 /\ \E s \in 1..(Len(buf) - 7) : CircularRun(buf, s, 9))
    => FlaggedRepeated

\* C9's case: flagged for the run that ends on the first byte, there being no
\* run of 9 inside the buffer
C9_Witness ==
  /\ Evaluated /\ FlaggedRepeated /\ Len(buf) >= 9
  /\ CircularRun(buf, Len(buf) - 7, 9)
  /\ ~\E s \in 1..(Len(buf) - 8) : CircularRun(buf, s, 9)

\* comparison j of the loop of Repeated, j = 1..n: b[j-1] against b[j mod n]
EqualAt(b, j) == b[j] = b[(j % Len(b)) + 1]

EightInARow(b) ==
  \E i \in 8..Len(b) : \A j \in (i - 7)..i : EqualAt(b, j)

Uniform(b) == \A k \in 1..Len(b) : b[k] = b[1]

\* C10: Repeated(b) is true exactly when 8 consecutive comparisons of
\* (b[i-1], b[i mod n]), i = 1..n, are all equal; a buffer of one repeated
\* byte value passes LooksRandom at length 1..7 and fails at length 8 or
\* more; the repeated-bytes rows of the test table come out as the table says.
C10_RepeatedBoundary ==
  Evaluated =>
    /\ FlaggedRepeated <=> EightInARow(buf)
    /\ (Uniform(buf) /\ Len(buf) \in 1..7) => verdict.ok
    /\ (Uniform(buf) /\ Len(buf) >= 8) => ~verdict.ok
    /\ \A c \in CorpusRepeated : c.bytes = buf => verdict.ok = c.want

\* C10's case: exactly 8 identical bytes, flagged through the comparison of
\* the last byte with the first
C10_Witness == Evaluated /\ Len(buf) = 8 /\ Uniform(buf) /\ FlaggedRepeated

\* y is x + 1, both numbers of Len(x) bytes given by their digits, least
\* significant first; the largest number has no successor
Succ(x, y) ==
  \E k \in 1..Len(x) :
    /\ x[k] < 255 /\ y[k] = x[k] + 1
    /\ \A j \in 1..(k - 1) : x[j] = 255 /\ y[j] = 0
    /\ \A j \in (k + 1)..Len(x) : y[j] = x[j]

\* number i (from 0) of b read as numbers of w bytes, as digits
NumberAt(b, w, order, i) ==
  LET bytes == SubSeq(b, w * i + 1, w * (i + 1))
  IN IF order = "BE" THEN Reverse(bytes) ELSE bytes

\* b encodes an incrementing sequence of w-byte integers: each of its
\* Len(b) \div w whole numbers is the one before plus 1
IsCounting(b, w, order) ==
  \A i \in 1..((Len(b) \div w) - 1) :
    Succ(NumberAt(b, w, order, i - 1), NumberAt(b, w, order, i))

\* C11: for every width 1, 2, 4, 8 and both byte orders, a buffer of width+8
\* or more bytes that encodes an incrementing sequence of width-byte integers
\* is flagged by Counting, and LooksRandom returns false with reason
\* "Counting" unless Repeated flags the buffer first; a buffer shorter than
\* width+8 bytes is never flagged at that width.
C11_CountingDetected ==
  Evaluated =>
    \A w \in {1, 2, 4, 8}, order \in {"LE", "BE"} :
      /\ Len(buf) < w + 8 => ~incrementing(buf, w, order)
      /\ (Len(buf) >= w + 8 /\ IsCounting(buf, w, order))
           => /\ incrementing(buf, w, order)
              /\ Counting(buf)
              /\ ~verdict.ok
              /\ verdict.reason \in {"Counting", "Repeated bytes"}
              /\ ~Repeated(buf) => verdict.reason = "Counting"

\* C11's case: 10 bytes of a big-endian 16-bit counter with a carry into the
\* high byte, reported as counting
C11_Witness ==
  /\ Evaluated /\ verdict.reason = "Counting"
  /\ Len(buf) = 2 + 8 /\ IsCounting(buf, 2, "BE")
  /\ \E i \in 1..4 : buf[2 * i + 1] # buf[1]

\* bit position pos of every byte of b, packed 8 to the byte: bit i mod 8 of
\* byte i div 8 is bit pos of b's byte i
Bitplane(b, pos) ==
  [m \in 1..((Len(b) + 7) \div 8) |->
     FromBits({j \in 0..7 : /\ 8 * (m - 1) + j + 1 <= Len(b)
                            /\ Bit(b[8 * (m - 1) + j + 1], pos) = 1})]

\* C12 as stated: for every buffer of 64 or more bytes, BitStuck flags the
\* buffer exactly when the bitplane of some bit position, packed 8 bits per
\* byte, is flagged by Repeated; shorter buffers are never flagged.
C12_BitStuckByBitplane ==
  Evaluated =>
    /\ Len(buf) < BitStuckMinLen => ~BitStuck(buf)
    /\ Len(buf) >= BitStuckMinLen =>
         (BitStuck(buf) <=> \E pos \in 0..7 : Repeated(Bitplane(buf, pos)))

\* C12 as amended: for every buffer of 64 or more bytes, BitStuck flags the
\* buffer exactly when some bit position has the same value in every byte of
\* the buffer, and LooksRandom then returns false (with reason "Bit stuck"
\* when no earlier test flags the buffer); shorter buffers are never flagged.
C12_BitStuckWholeBuffer ==
  Evaluated =>
    LET stuck == \E pos \in 0..7 : \A k \in 1..Len(buf) : Bit(buf[k], pos) = Bit(buf[1], pos)
    IN /\ Len(buf) < BitStuckMinLen => ~BitStuck(buf) /\ verdict.reason # "Bit stuck"
       /\ Len(buf) >= BitStuckMinLen =>
            /\ BitStuck(buf) <=> stuck
            /\ stuck => ~verdict.ok
            /\ verdict.reason = "Bit stuck" => stuck
            /\ (stuck /\ ~Repeated(buf) /\ ~Counting(buf) /\ ~DecimalHex(buf))
                 => verdict.reason = "Bit stuck"

\* C12's case: 64 bytes in which a bit is set in every byte and no bit is
\* clear in every byte, reported as a stuck bit
C12_Witness ==
  /\ Evaluated /\ verdict.reason = "Bit stuck" /\ Len(buf) = BitStuckMinLen
  /\ \E pos \in 0..7 : \A k \in 1..Len(buf) : Bit(buf[k], pos) = 1
  /\ \A pos \in 0..7 : \E k \in 1..Len(buf) : Bit(buf[k], pos) = 1

(***************************************************************************)
(* Properties of the handler and the uniqueness store                      *)
(***************************************************************************)

\* the 16-byte windows of a submission
WindowsOf(b) == {SubSeq(b, k, k + BlockSize - 1) : k \in 1..(Len(b) - (BlockSize - 1))}

\* the submissions recorded before the run starts, at the fullest
PrefilledSubmissions == {Fam(x) : x \in 0..(maxEntriesPerKey - 1)}

\* request p ran unique() to its end and unique() returned no error
UniqueRan(p) ==
  /\ req[p].pc = "done"
  /\ req[p].sanity.ok
  /\ req[p].response \in {"true", "false"}

\* C1: starting from a store that holds none of its fingerprints, submitting
\* the same byte sequence of 16..64 bytes twice in sequence makes unique()
\* report no match on the first call and a match on the second, and the
\* matched entry's Trailing is the trailing 12 bytes of the encrypted window,
\* at the reported index, of the original submission.
C1_RoundTrip ==
  (/\ UniqueRan(1) /\ UniqueRan(2)
   /\ req[1].b = req[2].b
   /\ req[1].b \notin PrefilledSubmissions)
  => /\ req[1].response = "true" /\ req[1].match = <<>>
     /\ req[2].response = "false" /\ req[2].match # <<>>
     /\ req[2].match[1].Trailing =
          trailingOf(Encrypt(req[1].secret,
                             SubSeq(req[1].b, req[2].i + 1, req[2].i + BlockSize)))

\* C1's case: the same 18 bytes submitted by two different callers, the
\* second reported as seen
C1_Witness ==
  /\ UniqueRan(1) /\ UniqueRan(2)
  /\ req[1].b = S18 /\ req[2].b = S18
  /\ req[1].uID = "alice" /\ req[2].uID = "bob"
  /\ req[1].response = "true" /\ req[2].response = "false"

\* no bucket a window of b maps to under `secret` has ever overflowed: a
\* bucket that has thrown out its older half holds more than half the cap
NeverEvicted(secret, b) ==
  \A w \in WindowsOf(b) :
    2 * Len(Hits(store, bucketKey(Encrypt(secret, w)))) < maxEntriesPerKey

\* C2: after a submission S has been recorded as unique, every later
\* submission that contains a 16-byte window equal to a 16-byte window of S,
\* at any position inside S, is reported non-unique (no eviction in between).
C2_OverlapDetected ==
  (/\ UniqueRan(1) /\ UniqueRan(2)
   /\ req[1].response = "true"
   /\ WindowsOf(req[1].b) \cap WindowsOf(req[2].b) # {}
   /\ req[1].secret = req[2].secret
   /\ NeverEvicted(req[1].secret, req[1].b)
   /\ NeverEvicted(req[2].secret, req[2].b))
  => req[2].response = "false"

\* C3: every bucket holds at most maxEntriesPerKey entries.
C3_BucketCap ==
  \A k \in DOMAIN store : Len(store[k]) <= maxEntriesPerKey

\* C3's case: a write found the bucket full and left the newer half of
\* maxEntriesPerKey + 1 entries
C3_Witness ==
  \E k \in DOMAIN store :
    /\ Len(store[k]) = (maxEntriesPerKey + 1) - ((maxEntriesPerKey + 1) \div 2)
    /\ store[k][Len(store[k])].Time >= 1

\* C4: no bucket contains two entries with the same Trailing value.
C4_UniqueTrailing ==
  \A k \in DOMAIN store :
    Cardinality({store[k][m].Trailing : m \in 1..Len(store[k])}) = Len(store[k])

\* C4's case: a request matched a stored fingerprint and its refresh wrote
\* the entry again
C4_Witness ==
  \E p \in Req :
    /\ req[p].pc = "done" /\ req[p].match # <<>>
    /\ \E k \in DOMAIN store :
         /\ Len(store[k]) > 1
         /\ store[k][Len(store[k])].Trailing = req[p].match[1].Trailing
         /\ store[k][Len(store[k])].Time >= 1
         /\ store[k][Len(store[k])].UserID = ""

\* request p's write transaction commits in this step
Commits(p) ==
  /\ req[p].pc \in WritePcs
  /\ req[p].tx = "put"
  /\ req'[p] # req[p]
  /\ store' # store

\* C5: a write that commits into a bucket below the cap keeps every entry the
\* bucket holds at that moment, those of concurrent writers included, other
\* than the one it replaces, and adds its own; so two concurrent writers of
\* distinct fingerprints both end up in the bucket.
C5_NoLostUpdate ==
  [][\A p \in Req :
       Commits(p) =>
         LET key == bucketKey(wChunk(req[p]))
             new == trailingOf(wChunk(req[p]))
             pre == Hits(store, key)
             post == Hits(store', key)
         IN Len(pre) < maxEntriesPerKey =>
              /\ \A m \in 1..Len(pre) :
                   pre[m].Trailing # new => \E n \in 1..Len(post) : post[n] = pre[m]
              /\ \E n \in 1..Len(post) : post[n].Trailing = new
              /\ \A k \in (DOMAIN store) \ {key} : k \in DOMAIN store' /\ store'[k] = store[k]]_vars

\* C5's case: two requests wrote distinct fingerprints into one bucket, one
\* of them after its transaction was run again, and the bucket holds both
C5_Witness ==
  \E p, q \in Req :
    /\ p # q /\ UniqueRan(p) /\ UniqueRan(q)
    /\ req[p].response = "true" /\ req[q].response = "true"
    /\ req[q].attempts >= 1
    /\ req[p].b = Fam(maxEntriesPerKey) /\ req[q].b = Fam(maxEntriesPerKey + 1)
    /\ req[p].secret = req[q].secret
    /\ LET hits == Hits(store, bucketKey(Encrypt(req[p].secret, req[p].b)))
       IN /\ Len(hits) = 2
          /\ {hits[1].Trailing, hits[2].Trailing} =
               {trailingOf(Encrypt(req[p].secret, req[p].b)),
                trailingOf(Encrypt(req[q].secret, req[q].b))}

\* what C6 says of a refresh that commits: the bucket is as before but for the
\* matched fingerprint, which sits last, once, with the time read by the
\* request and no user id or tag
Refreshed(p) ==
  LET key == bucketKey(wChunk(req[p]))
      new == trailingOf(wChunk(req[p]))
      pre == Hits(store, key)
      post == Hits(store', key)
  IN /\ Len(post) = Len(pre)
     /\ post = SelectSeq(pre, LAMBDA h : h.Trailing # new)
               \o <<Entry(new, req[p].t, "", "")>>

C7_FailFast ==
  [][\A p \in Req :
       (req'[p] # req[p] /\ req'[p].sanity # NoVerdict /\ ~req'[p].sanity.ok)
         => /\ req'[p].pc = "done"
            /\ req'[p].response = "false"
            /\ req'[p].secret = <<>> /\ req'[p].match = <<>>
            /\ store' = store /\ secrets' = secrets]_vars

\* C7's case: a submission of repeated bytes was answered "false" while the
\* store held nothing and no secret existed
C7_Witness ==
  \E p \in Req :
    /\ req[p].pc = "done"
    /\ req[p].sanity.reason = "Repeated bytes"
    /\ req[p].response = "false"
    /\ store = EmptyStore /\ secrets = <<>>

\* a storage operation of request p's uniqueness check has failed: a write
\* returned an error, or the secret query, the secret put or the batch fetch
\* did and unique returned it
StorageFailed(p) == req[p].wfail \/ req[p].err # ""

\* C13: whenever a storage operation performed by the uniqueness check fails
\* (secret query or put, batch fetch, or a bucket write, the refresh write on
\* a match included), unique() returns an error and the request renders
\* neither "true" nor "false".
C13_StorageErrorsAbort ==
  \A p \in Req :
    (req[p].pc = "done" /\ StorageFailed(p))
      => req[p].err # "" /\ req[p].response \notin {"true", "false"}

\* secretKey has returned a secret to request p without an error
SecretReturned(p) ==
  /\ req[p].secret # <<>>
  /\ req[p].pc # "secretPut"
  /\ ~(req[p].pc = "done" /\ req[p].err = "ErrPut")

\* C14: under any interleaving of secretKey calls, at most one secret record
\* is ever persisted and every call returns the same value, so every request
\* maps the same window to the same bucket key and trailing bytes.
C14_SingleSecret ==
  /\ Len(secrets) <= 1
  /\ \A p, q \in Req :
       (SecretReturned(p) /\ SecretReturned(q)) => req[p].secret = req[q].secret

\* C16: when a write brings a bucket to 101 entries, exactly the 50 entries
\* at the front (the oldest) are dropped and the other 51 stay in their
\* order with the entry just written last; a write that leaves the bucket at
\* 100 entries or fewer drops no entry other than the one it replaces.
C16_EvictOldestHalf ==
  [][\A p \in Req :
       Commits(p) =>
         LET key == bucketKey(wChunk(req[p]))
             new == trailingOf(wChunk(req[p]))
             pre == Hits(store, key)
             post == Hits(store', key)
             kept == SelectSeq(pre, LAMBDA h : h.Trailing # new)
         IN /\ Len(post) >= 1
            /\ post[Len(post)] = Entry(new, req[p].t, wUID(req[p]), wTag(req[p]))
            /\ IF Len(kept) + 1 = 101
               THEN /\ Len(post) = 51
                    /\ \A m \in 1..50 : post[m] = kept[50 + m]
               ELSE /\ Len(kept) + 1 <= 100
                    /\ SubSeq(post, 1, Len(post) - 1) = kept]_vars

\* C16's case: a full bucket after one more fingerprint: 51 entries, the
\* first of them the 51st of the entries it held, the last the new one
C16_Witness ==
  \E k \in DOMAIN store :
    /\ Len(store[k]) = 51
    /\ store[k][1] = Prefilled(maxEntriesPerKey)[51]
    /\ store[k][51].Time >= 1
    /\ store[k][51].Trailing = trailingOf(Encrypt(Secret1, Fam(maxEntriesPerKey)))

\* the calls on key that have started
CallsOn(key) == {c \in Calls : rl[c].pc # "idle" /\ rl[c].key = key}

\* the calls on key that returned limited=false and no error
Passed(key) ==
  {c \in CallsOn(key) : rl[c].pc = "done" /\ ~rl[c].limited /\ ~rl[c].err}

\* the calls on key whose Increment was carried out
Counted(key) ==
  {c \in CallsOn(key) : rl[c].pc \in {"get", "set"} \/ rl[c].value > 0 \/ rl[c].limited}

\* C15 as stated: for every key and every max, at most max calls of RateLimit
\* return limited=false, under any interleaving of concurrent calls on the
\* key; every further call returns limited=true.
C15_RateLimitBound ==
  \A key \in RateKeys, max \in 0..MaxRate :
    (\A c \in CallsOn(key) : rl[c].max = max)
      => /\ Cardinality(Passed(key)) <= max
         /\ \A c \in CallsOn(key) :
              (rl[c].pc = "done" /\ ~rl[c].err /\ Cardinality(Passed(key) \ {c}) >= max)
                => rl[c].limited

\* C15 as amended: the same, as long as no call's Set has written back a
\* counter value that other calls had decremented in the meantime; the
\* counter then stands at max less the calls counted, or at 0.
C15_RateLimitBoundNoRace ==
  \A key \in RateKeys, max \in 0..MaxRate :
    (/\ \A c \in CallsOn(key) : rl[c].max = max
     /\ \A c \in CallsOn(key) : ~rl[c].raced)
      => /\ Cardinality(Passed(key)) <= max
         /\ \A c \in CallsOn(key) :
              (rl[c].pc = "done" /\ ~rl[c].err /\ Cardinality(Passed(key) \ {c}) >= max)
                => rl[c].limited
         /\ key \in DOMAIN mc =>
              mc[key].value = (IF Cardinality(Counted(key)) > max + 1 THEN 0
                               ELSE (max + 1) - Cardinality(Counted(key)))

\* C15's case: three calls on one key with max 2: two passed, the first of
\* them set the expiration, the third was limited
C15_Witness ==
  \E key \in RateKeys :
    /\ \A c \in CallsOn(key) : rl[c].max = 2 /\ ~rl[c].raced /\ rl[c].pc = "done"
    /\ Cardinality(Passed(key)) = 2
    /\ \E c \in CallsOn(key) : rl[c].limited
    /\ mc[key].expiration = "timespan"

\* the encrypted window at Go index k of request r's bytes
ChunkAt(r, k) == Encrypt(r.secret, SubSeq(r.b, k + 1, k + BlockSize))

\* the Go index of the last window of request r's bytes
LastIndex(r) == Len(r.b) - BlockSize

\* the entries of st with the fingerprint chunk
StoredAs(st, chunk) ==
  {Hits(st, bucketKey(chunk))[m] : m \in {x \in 1..Len(Hits(st, bucketKey(chunk))) :
      Hits(st, bucketKey(chunk))[x].Trailing = trailingOf(chunk)}}

\* the Go indexes of the windows of r's bytes whose fingerprint st holds
StoredWindows(st, r) == {k \in 0..LastIndex(r) : StoredAs(st, ChunkAt(r, k)) # {}}

\* st with the entries of fingerprint chunk taken out of its bucket
Without(st, chunk) ==
  SelectSeq(Hits(st, bucketKey(chunk)), LAMBDA h : h.Trailing # trailingOf(chunk))

\* post is what is left of full after entries were dropped from its front
EndsWith(post, full) ==
  \E d \in 0..(Len(full) - 1) : post = SubSeq(full, d + 1, Len(full))

\* C17: when several windows of one submission match stored entries, unique()
\* reports the smallest matching window index, returns that entry as it was
\* before the refresh, refreshes only that one entry, and writes nothing for
\* the submission's first and last windows.
C17_FirstMatchWins ==
  [][\A p \in Req :
       /\ (req[p].pc = "GetMulti" /\ req'[p].pc = "refresh")
            => LET r == req'[p]
               IN /\ StoredWindows(store, r) # {}
                  /\ r.i = Min(StoredWindows(store, r))
                  /\ r.match[1] \in StoredAs(store, ChunkAt(r, r.i))
       /\ (req[p].pc = "refresh" /\ req'[p] # req[p])
            => LET r == req[p]
                   c == ChunkAt(r, r.i)
               IN /\ req'[p].pc \in {"refresh", "done"}
                  /\ req'[p].match = r.match /\ req'[p].i = r.i
                  /\ req'[p].pc = "done" => req'[p].response = "false"
                  /\ store' # store =>
                       /\ \A k \in (DOMAIN store) \ {bucketKey(c)} :
                            k \in DOMAIN store' /\ store'[k] = store[k]
                       /\ EndsWith(Hits(store', bucketKey(c)),
                            Without(store, c) \o <<Entry(trailingOf(c), r.t, "", "")>>)]_vars

\* C17's case: alice's S18 was recorded; a submission whose windows 1 and 3
\* are the first and the last window of S18 is answered with window 1 and
\* alice's entry, and the entry of S18's last window still is alice's
C17_Witness ==
  /\ req[1].b = S18 /\ req[1].uID = "alice" /\ req[1].response = "true"
  /\ req[2].b = Pre19 /\ req[2].pc = "done" /\ req[2].response = "false"
  /\ ~req[2].wfail
  /\ req[2].i = 1 /\ req[2].match[1].UserID = "alice"
  /\ StoredAs(store, ChunkAt(req[2], 1)) =
       {Entry(trailingOf(ChunkAt(req[2], 1)), now, "", "")}
  /\ \E h \in StoredAs(store, ChunkAt(req[2], 3)) : h.UserID = "alice"

\* C18: when no window of a submission matches, unique() adds entries only
\* for the first window and the last window (one entry when the submission
\* is exactly 16 bytes), each with the caller's userID and tag; no
\* fingerprint of an intermediate window is stored and no other bucket is
\* modified; one call performs at most 2 bucket writes.
C18_WritesOnNoMatch ==
  [][\A p \in Req :
       /\ (req[p].pc = "GetMulti" /\ req'[p].pc = "writeFirst")
            => StoredWindows(store, req'[p]) = {}
       /\ (req[p].pc \in {"writeFirst", "writeLast"} /\ req'[p] # req[p])
            => LET r == req[p]
                   c == ChunkAt(r, IF r.pc = "writeFirst" THEN 0 ELSE LastIndex(r))
               IN /\ r.match = <<>>
                  /\ req'[p].pc \in
                       (IF r.pc = "writeLast" THEN {"writeLast", "done"}
                        ELSE IF store' = store THEN {"writeFirst", "done"}
                        ELSE IF LastIndex(r) = 0 THEN {"done"} ELSE {"writeLast"})
                  /\ store' # store =>
                       /\ req'[p].pc # r.pc
                       /\ \A k \in (DOMAIN store) \ {bucketKey(c)} :
                            k \in DOMAIN store' /\ store'[k] = store[k]
                       /\ EndsWith(Hits(store', bucketKey(c)),
                            Without(store, c) \o <<Entry(trailingOf(c), r.t, r.uID, r.tag)>>)
                  /\ (req'[p].pc = "done" /\ req'[p].response = "true")
                       => /\ StoredWindows(store', r) = {0, LastIndex(r)}
                          /\ \A k \in {0, LastIndex(r)} :
                               \A h \in StoredAs(store', ChunkAt(r, k)) :
                                 h.UserID = r.uID /\ h.Tag = r.tag]_vars

\* C18's case: bob's 64 bytes on an empty store: two buckets of one entry
\* each, bob's
C18_Witness ==
  /\ req[1].b = L64 /\ req[1].uID = "bob" /\ req[1].response = "true"
  /\ req[2].pc = "idle"
  /\ Cardinality(DOMAIN store) = 2
  /\ \A k \in DOMAIN store :
       Len(store[k]) = 1 /\ store[k][1].UserID = "bob" /\ store[k][1].Tag = "tb"

\* request p found no match, persisted the entry of its first window and
\* then failed: the write of its last window returned an error
PartialWrite(p) ==
  /\ req[p].pc = "done" /\ req[p].match = <<>>
  /\ req[p].wfail /\ req[p].err # ""
  /\ LastIndex(req[p]) > 0
  /\ 0 \in StoredWindows(store, req[p])

\* C19: if a no-match call persists the first-window entry and then fails
\* before the last-window entry is written, the repeated call with the same
\* submission, none of whose storage operations fails, yields the outcome of an uninterrupted call (answered "true",
\* no notification) and leaves the store as one does: the entries of the
\* first and the last window, the caller's.
C19_RepeatAfterPartialWrite ==
  (/\ PartialWrite(1)
   /\ req[2].b = req[1].b /\ req[2].uID = req[1].uID
   /\ req[2].secret = req[1].secret
   /\ UniqueRan(2) /\ ~StorageFailed(2))
    => /\ req[2].response = "true" /\ req[2].notes = {}
       /\ StoredWindows(store, req[2]) = {0, LastIndex(req[2])}
       /\ \A k \in {0, LastIndex(req[2])} :
            \A h \in StoredAs(store, ChunkAt(req[2], k)) : h.UserID = req[2].uID

\* the keys of the batch whose fetch failed for a reason other than a
\* missing entity
OtherErrors(m) == {k \in 1..Len(m) : m[k] \notin {"", "ErrNoSuchEntity"}}

\* request p goes on after the batch fetch as if every missing bucket were
\* empty: to the refresh when the store holds one of its windows, else to
\* the write of its first window
GoesOn(p) ==
  /\ req'[p].err = "" /\ req'[p].response = ""
  /\ \A k \in 1..Len(req'[p].vals) :
       req'[p].vals[k] = (IF bucketKey(req'[p].chunks[k]) \in DOMAIN store
                          THEN store[bucketKey(req'[p].chunks[k])] ELSE <<>>)
  /\ req'[p].pc = (IF StoredWindows(store, req'[p]) # {} THEN "refresh" ELSE "writeFirst")

\* unique returns e to request p: no match, answer 500
Aborts(p, e) ==
  /\ req'[p].pc = "done" /\ req'[p].err = e
  /\ req'[p].match = <<>> /\ req'[p].response = "500" /\ req'[p].notes = {}

\* C20: in the batch fetch, "no such entity" for any subset of the keys is an
\* empty bucket and not an error; any other error (a plain error, or the first
\* element of a multi-error that is not "no such entity") makes unique()
\* return that error with no match and with no bucket written or modified.
C20_BatchFetchErrors ==
  [][\A p \in Req :
       (req[p].pc = "GetMulti" /\ req'[p] # req[p])
         => LET err == req'[p].merr
            IN /\ store' = store
               /\ ~req'[p].wfail
               /\ CASE err.kind = "nil" -> GoesOn(p)
                    [] err.kind = "plain" -> Aborts(p, err.e)
                    [] err.kind = "multi" ->
                         IF OtherErrors(err.m) = {} THEN GoesOn(p)
                         ELSE Aborts(p, err.m[Min(OtherErrors(err.m))])]_vars

\* the elements of the multi-error m
ElementsOf(m) == {m[k] : k \in 1..Len(m)}

\* C20's case: the fetch for request 1 failed on its last two keys and the
\* request was answered 500 with the first of the two errors; the fetch for
\* request 2 found some buckets and missed others, and the request goes on
C20_Witness ==
  /\ req[1].pc = "done" /\ req[1].merr.kind = "multi"
  /\ req[1].err = "ErrA" /\ req[1].response = "500"
  /\ "ErrNoSuchEntity" \in ElementsOf(req[1].merr.m)
  /\ req[2].pc = "refresh" /\ req[2].merr.kind = "multi" /\ req[2].err = ""
  /\ ElementsOf(req[2].merr.m) = {"", "ErrNoSuchEntity"}
  /\ store = StoreAfterS18

\* request p got a match that still carries the owner's id, without any of
\* its storage operations failing
MatchedOwned(p) ==
  /\ req[p].pc = "done" /\ req[p].match # <<>>
  /\ ~StorageFailed(p)
  /\ req[p].match[1].UserID # ""

\* looksUnique of request p has notified the owner of the entry it matched
NotifiedOwner(p) ==
  /\ MatchedOwned(p)
  /\ Note(req[p].match[1].UserID, req[p].match[1].Tag, "Non Unique") \in req[p].notes
  /\ req[p].uID # req[p].match[1].UserID

\* C21: for a fingerprint recorded with a non-empty UserID, at most one
\* matching submission receives the entry still carrying that UserID and Tag,
\* so looksUnique notifies the original owner at most once, under any
\* interleaving of submissions.
C21_OwnerNotifiedOnce ==
  \A p \in Req : \A q \in Req \ {p} :
    (/\ MatchedOwned(p) /\ MatchedOwned(q)
     /\ req[p].secret = req[q].secret
     /\ req[p].match[1] = req[q].match[1])
      => ~(NotifiedOwner(p) /\ NotifiedOwner(q))

\* the bucket under key k is oldest first: no entry is older than the one
\* before it
OldestFirst(k) ==
  \A i \in 1..(Len(store[k]) - 1) : store[k][i].Time <= store[k][i + 1].Time

\* C22: in every reachable persisted state the entries of every bucket are
\* in non-decreasing Time order, under any interleaving of submissions in
\* which each writer reads its timestamp before its bucket transaction
\* starts.
C22_OldestFirst == \A k \in DOMAIN store : OldestFirst(k)

\* the first and the last window of the submission b
EndWindows(b) == {SubSeq(b, 1, BlockSize), SubSeq(b, Len(b) - BlockSize + 1, Len(b))}

\* C23: when two submissions that share a first or last window run against
\* a store that has not seen that window (same secret, no storage operation
\* failing), at least one of the two is reported non-unique, whatever the
\* interleaving of their batch fetches and their bucket writes.
C23_ConcurrentDuplicates ==
  \A p \in Req : \A q \in Req \ {p} :
    (/\ UniqueRan(p) /\ UniqueRan(q)
     /\ ~StorageFailed(p) /\ ~StorageFailed(q)
     /\ req[p].secret = req[q].secret
     /\ (EndWindows(req[p].b) \cap EndWindows(req[q].b)) \ PrefilledSubmissions # {})
      => "false" \in {req[p].response, req[q].response}

====
